---- MODULE Spec2Model ----
(***************************************************************************)
(* Download orchestration of the classroom downloader:                     *)
(*   backend/downloader.py   DownloadProgress, FileDownloader               *)
(*   backend/file_manager.py FileSystemManager (path resolution)            *)
(*   backend/database.py     DatabaseManager (materials table)              *)
(*   app.py                  api_settings, api_start_download               *)
(*                                                                         *)
(* File names are sequences of one-character strings, so that the string   *)
(* functions of file_manager.py are computed character by character.       *)
(*                                                                         *)
(* The fetch coroutines run on one asyncio event loop: a coroutine runs    *)
(* without interruption from one await to the next.  Every action of a     *)
(* fetch below is one such segment.                                         *)
(***************************************************************************)
EXTENDS Integers, Sequences, FiniteSets, TLC

\* ------------------------------------------------------------------ bounds
MaxBatch == 2          \* attachments handed to one download_attachments call
TicksPerDelay == 1     \* clock ticks that make up one request_delay
MaxRequests == 3       \* start-download requests received by the web layer
MaxFiles == 2          \* files on disk after which no further batch is started
MaxResolves == 3       \* successive get_file_path calls for one name
MaxNameLen == 3        \* characters of the names handed to sanitize_filename
MaxUpdates == 2        \* POSTs to /api/settings that are followed
MaxAcquires == 12      \* acquisitions tried on a new gate without a release
MaxOps == 3            \* tracker calls followed on one DownloadProgress

\* ------------------------------------------------------- program constants
DefaultMaxConcurrent == 5
MinConcurrent == 1
MaxConcurrent == 10
MaxFilenameLength == 200
MaxCourseLength == 100
MaxCounter == 9999
ErrorWindow == 10

\* ----------------------------------------------------------------- strings
DotPdf == <<".", "p", "d", "f">>
DotTxt == <<".", "t", "x", "t">>
DotXlsx == <<".", "x", "l", "s", "x">>
Untitled == <<"u", "n", "t", "i", "t", "l", "e", "d">>
Uncategorized == <<"U", "n", "c", "a", "t", "e", "g", "o", "r", "i", "z", "e", "d">>
UntitledCourse == <<"U", "n", "t", "i", "t", "l", "e", "d", "_", "C", "o", "u", "r", "s", "e">>

UnsafeChars == {"<", ">", ":", "\"", "/", "\\", "|", "?", "*"}
ControlChars == {"\t", "\n"}
StripChars == {".", " "}
RStripChars == {"_", ".", " "}

\* x \in {e} binds x to the value of e: Only({F(x) : x \in {e}}) is F(e) with e
\* computed once
Only(S) == CHOOSE x \in S : TRUE

SetMin(S) == CHOOSE x \in S : \A y \in S : x <= y
SetMax(S) == CHOOSE x \in S : \A y \in S : y <= x

\* re.sub(unsafe_chars, '_', s)
ReplaceUnsafe(s) == [k \in 1..Len(s) |-> IF s[k] \in UnsafeChars THEN "_" ELSE s[k]]

IsPrintable(c) == c \notin ControlChars

\* ''.join(char for char in s if ord(char) >= 32)
RemoveControl(s) == SelectSeq(s, IsPrintable)

\* s.strip(chars)
Strip(s, chars) ==
    LET keep == {k \in 1..Len(s) : s[k] \notin chars}
    IN IF keep = {} THEN <<>> ELSE SubSeq(s, SetMin(keep), SetMax(keep))

\* s.rstrip(chars)
RStrip(s, chars) ==
    LET keep == {k \in 1..Len(s) : s[k] \notin chars}
    IN IF keep = {} THEN <<>> ELSE SubSeq(s, 1, SetMax(keep))

IsBlank(c) == c \in {" ", "_"}
StartsRun(e) == e[2]
Second(e) == e[1]

\* re.sub(r'[\s_]+', '_', s): every run of spaces and underscores becomes one '_'
Collapse(s) ==
    LET marked == [k \in 1..Len(s) |->
                      <<IF IsBlank(s[k]) THEN "_" ELSE s[k],
                        ~(IsBlank(s[k]) /\ k > 1 /\ IsBlank(s[k - 1]))>>]
        kept == SelectSeq(marked, StartsRun)
    IN [k \in 1..Len(kept) |-> kept[k][1]]

\* index of the last '.' of s, 0 when there is none (str.rfind)
LastDot(s) == SetMax({k \in 1..Len(s) : s[k] = "."} \cup {0})

\* the number of dots s starts with
LeadingDots(s) == SetMin({k \in 1..Len(s) : s[k] # "."} \cup {Len(s) + 1}) - 1

\* os.path.splitext: the extension starts at the last dot, unless that dot
\* belongs to the leading dots of the name
SplitExt(s) ==
    IF LastDot(s) = 0 \/ LastDot(s) <= LeadingDots(s)
    THEN <<s, <<>>>>
    ELSE <<SubSeq(s, 1, LastDot(s) - 1), SubSeq(s, LastDot(s), Len(s))>>

\* s[:n] of Python, n possibly negative
Prefix(s, n) == SubSeq(s, 1, IF n < 0 THEN (IF Len(s) + n < 0 THEN 0 ELSE Len(s) + n)
                                ELSE IF n > Len(s) THEN Len(s) ELSE n)

\* the steps of sanitize_filename before the length limit
Cleaned(name) ==
    Only({Collapse(c) :
            c \in {Only({Strip(b, StripChars) :
                            b \in {Only({RemoveControl(ReplaceUnsafe(n)) : n \in {name}})}})}})

Truncated(c, max_length) ==
    IF Len(c) > max_length
    THEN Only({RStrip(Prefix(ne[1], max_length - Len(ne[2])), RStripChars) \o ne[2] :
                 ne \in {SplitExt(c)}})
    ELSE c

OrUntitled(d) == IF d = <<>> \/ d = <<".">> \/ d = <<".", ".">> THEN Untitled ELSE d

sanitize_filename(filename, max_length) ==
    Only({OrUntitled(d) :
            d \in {Only({Truncated(c, max_length) : c \in {Cleaned(filename)}})}})

CourseTruncated(c) ==
    IF Len(c) > MaxCourseLength THEN RStrip(Prefix(c, MaxCourseLength), RStripChars) ELSE c

sanitize_course_name(course_name) ==
    Only({IF d = <<>> THEN UntitledCourse ELSE d :
            d \in {Only({CourseTruncated(c) : c \in {Cleaned(course_name)}})}})

UpperLetters == <<"A", "B", "C", "D", "E", "F", "G", "H", "I", "J", "K", "L", "M",
                  "N", "O", "P", "Q", "R", "S", "T", "U", "V", "W", "X", "Y", "Z">>
LowerLetters == <<"a", "b", "c", "d", "e", "f", "g", "h", "i", "j", "k", "l", "m",
                  "n", "o", "p", "q", "r", "s", "t", "u", "v", "w", "x", "y", "z">>

LowerChar(c) ==
    IF \E k \in 1..Len(UpperLetters) : UpperLetters[k] = c
    THEN LowerLetters[CHOOSE k \in 1..Len(UpperLetters) : UpperLetters[k] = c]
    ELSE c

\* str.lower()
Lower(s) == [k \in 1..Len(s) |-> LowerChar(s[k])]

Digits == <<"0", "1", "2", "3", "4", "5", "6", "7", "8", "9">>

RECURSIVE IntToStr(_)
\* str(counter) of a natural number
IntToStr(n) ==
    IF n < 10 THEN <<Digits[n + 1]>>
    ELSE IntToStr(n \div 10) \o <<Digits[(n % 10) + 1]>>

\* --------------------------------------------------- FileSystemManager
PdfMime == "application/pdf"
XlsxMime == "application/vnd.openxmlformats-officedocument.spreadsheetml.sheet"
TextMime == "text/plain"
GoogleDoc == "application/vnd.google-apps.document"
GoogleSlides == "application/vnd.google-apps.presentation"
GoogleSheet == "application/vnd.google-apps.spreadsheet"
GoogleDrawing == "application/vnd.google-apps.drawing"
OctetStream == "application/octet-stream"

\* MIME_EXTENSIONS.get(mime_type, ''), for the content types of the model
MIME_EXTENSIONS(mime_type) ==
    CASE mime_type = PdfMime -> DotPdf
      [] mime_type = GoogleDoc -> DotPdf
      [] mime_type = GoogleSlides -> DotPdf
      [] mime_type = GoogleSheet -> DotXlsx
      [] mime_type = XlsxMime -> DotXlsx
      [] mime_type = TextMime -> DotTxt
      [] OTHER -> <<>>

\* the category of FILE_CATEGORIES that lists the extension
WebExtensions ==
    { <<".", "h", "t", "m", "l">>, <<".", "h", "t", "m">>, <<".", "c", "s", "s">>,
      <<".", "j", "s">>, <<".", "j", "s", "o", "n">>, <<".", "x", "m", "l">> }

CategoryOfExt(ext) ==
    CASE ext = DotPdf -> "PDFs"
      [] ext = DotTxt -> "Documents"
      [] ext = DotXlsx -> "Spreadsheets"
      [] ext \in WebExtensions -> "Web"
      [] OTHER -> "Other"

get_file_category(filename, mime_type) ==
    Only({CategoryOfExt(IF ext = <<>> /\ mime_type # "none"
                        THEN MIME_EXTENSIONS(mime_type) ELSE ext) :
            ext \in {SplitExt(Lower(filename))[2]}})

\* pathlib's Path.suffix and Path.stem of a file name
PathSuffix(name) ==
    IF 1 < LastDot(name) /\ LastDot(name) < Len(name)
    THEN SubSeq(name, LastDot(name), Len(name)) ELSE <<>>

PathStem(name) == SubSeq(name, 1, Len(name) - Len(PathSuffix(name)))

MkPath(course, category, name) == [course |-> course, category |-> category, name |-> name]

\* the name _ensure_unique_filename tries for a counter
Numbered(file_path, counter) ==
    [file_path EXCEPT !.name = PathStem(file_path.name) \o <<"_">> \o IntToStr(counter)
                               \o PathSuffix(file_path.name)]

FirstFreeAlwaysOne(file_path, files) == 1

\* the first counter whose name is free; one of 1..|files|+1 is
FirstFree(file_path, files) ==
    SetMin({k \in 1..(Cardinality(files) + 1) : Numbered(file_path, k) \notin files})

\* files: the set of paths that exist
ensure_unique_filename(file_path, files) ==
    IF file_path \notin files THEN file_path
    ELSE IF FirstFree(file_path, files) <= MaxCounter
    THEN Numbered(file_path, FirstFree(file_path, files))
    ELSE [file_path EXCEPT !.name = PathStem(file_path.name) \o <<"_", "uuid">>
                                    \o PathSuffix(file_path.name)]

\* the name the file gets: sanitized, with the extension of the content type
\* when it has none
SafeFilename(filename, mime_type) ==
    Only({IF SplitExt(safe)[2] = <<>> /\ mime_type # "none"
          THEN safe \o MIME_EXTENSIONS(mime_type) ELSE safe :
            safe \in {sanitize_filename(filename, MaxFilenameLength)}})

CourseOrDefault(course_name) ==
    IF course_name = <<>> \/ Lower(course_name) = Lower(Uncategorized)
    THEN Uncategorized ELSE course_name

\* course_dir / category / safe_filename
PlainPath(course_name, filename, mime_type) ==
    Only({MkPath(sanitize_course_name(CourseOrDefault(course_name)),
                 get_file_category(safe, mime_type), safe) :
            safe \in {SafeFilename(filename, mime_type)}})

get_file_path(course_name, filename, mime_type, files) ==
    Only({ensure_unique_filename(p, files) :
            p \in {PlainPath(course_name, filename, mime_type)}})

\* ------------------------------------------------------ the environment
\* The remote store: two files under different ids with the same name and
\* the same bytes.
DriveIds == {"f1", "f2"}
RemoteFile(file_id) ==
    [name |-> <<"a", ".", "p", "d", "f">>, mimeType |-> PdfMime,
     has_md5 |-> TRUE, content |-> [kind |-> "bytes", title |-> <<>>, body |-> "X"]]

\* hashlib.sha256(content).hexdigest() and the md5Checksum of the remote
\* metadata: digests of different algorithms are different strings
Sha256(content) == <<"sha256", content>>
Md5(content) == <<"md5", content>>

\* attachment descriptors as extract_attachments builds them; "none" is None,
\* the empty course name a missing one
Attachment(type, file_id, url, title) ==
    [type |-> type, drive_file_id |-> file_id, url |-> url, title |-> title,
     course_name |-> <<"c">>, material_type |-> "ASSIGNMENT"]

Catalogue ==
    << Attachment("drive_file", "f1", "none", <<"a">>),
       Attachment("drive_file", "f2", "none", <<"a">>),
       Attachment("drive_file", "none", "none", <<"a">>),
       Attachment("link", "none", "u", <<"a">>),
       Attachment("unknown", "none", "none", <<"U", "n", "k">>),
       Attachment("unknown", "none", "none", <<"V">>) >>

\* a link of a material that belongs to no course
ExampleUrl == "https://example.com/x"
ExampleTitle == <<"E", "x", "a", "m", "p", "l", "e">>
ExampleLink ==
    [Attachment("link", "none", ExampleUrl, ExampleTitle) EXCEPT !.course_name = <<>>]

\* the batches handed to download_attachments: up to MaxBatch different
\* descriptors of the catalogue, in catalogue order
IndexLists == UNION {[1..n -> 1..Len(Catalogue)] : n \in 0..MaxBatch}
Batches == {[k \in 1..Len(l) |-> Catalogue[l[k]]] :
                l \in {m \in IndexLists : \A j \in 1..(Len(m) - 1) : m[j] < m[j + 1]}}

ConcurrencyInputs == {0}
\* a request ends with status 200 ("ok"), with another status ("error") or with
\* a raised exception ("exception": a network error, or an authorization handle
\* without credentials)
Responses == {"ok", "error", "exception"}

NoPath == MkPath(<<>>, "", <<>>)

VARIABLES
    max_concurrent,   \* FileDownloader.max_concurrent
    progress,         \* FileDownloader.progress, a DownloadProgress
    elapsed,          \* time.time() - last_request_time, in ticks, capped at TicksPerDelay
    batchPc,          \* download_attachments: "idle", "running", "returned"
    atts,             \* the attachments of the call
    pc,               \* per fetch task: the await it is suspended at
    outcome,          \* per fetch task: the path it ended on, "none" while it runs
    sem,              \* the value of the asyncio.Semaphore of the call
    gate,             \* history: the value the Semaphore was created with
    sleep,            \* per fetch task: ticks left of its asyncio.sleep
    file_path,        \* per fetch task: the local variable file_path
    final_status,     \* what download_attachments returned
    fs,               \* the paths of the files that exist under base_dir
    db,               \* the rows of the materials table
    writes,           \* history: every open-for-writing of a file by a fetch
    delivered,        \* the snapshot the progress callback was last called with
    lastGap,          \* history: the elapsed ticks between the last two outbound requests
    reqPc,            \* per start-download request: position in api_start_download / run_download
    global_status,    \* app.current_download_status, the module global
    local_status,     \* per request: the current_download_status local to run_download
    callback_owner,   \* the request whose progress_callback the downloader holds
    fm_call,          \* the call a function-level specification follows
    fm_results        \* what that call has returned or set so far, in order

dlVars == <<max_concurrent, progress, delivered, elapsed, batchPc, atts, pc, outcome, sem,
            gate, sleep, file_path, final_status, fs, db, writes, lastGap>>
appVars == <<reqPc, global_status, local_status, callback_owner>>
fmVars == <<fm_call, fm_results>>
vars == <<dlVars, appVars, fmVars>>

Tasks == 1..Len(atts)

\* --------------------------------------------------- DownloadProgress
NewProgress ==
    [total_files |-> 0, completed_files |-> 0, failed_files |-> 0,
     duplicates_skipped |-> 0, current_file |-> <<>>, current_progress |-> 0,
     errors |-> <<>>, files_processed |-> <<>>]

update_current_file(p, filename, pct) ==
    [p EXCEPT !.current_file = filename, !.current_progress = pct]

CompleteFileAlwaysCompleted(p, filename, success, error, item) ==
    [p EXCEPT !.completed_files = @ + 1,
              !.files_processed =
                  Append(@, [filename |-> filename, success |-> TRUE, error |-> error,
                             item |-> item])]

SkipDuplicateCountedCompleted(p, filename, item) ==
    [p EXCEPT !.completed_files = @ + 1,
              !.files_processed =
                  Append(@, [filename |-> filename, success |-> TRUE,
                             error |-> "Skipped - duplicate", item |-> item])]

\* item: the task that makes the call, kept with the audit entry
complete_file(p, filename, success, error, item) ==
    LET counted == IF success
                   THEN [p EXCEPT !.completed_files = @ + 1]
                   ELSE [p EXCEPT !.failed_files = @ + 1,
                                  !.errors = IF error # "" THEN Append(@, <<filename, error>>)
                                             ELSE @]
    IN [counted EXCEPT !.files_processed =
            Append(@, [filename |-> filename, success |-> success, error |-> error,
                       item |-> item])]

SkipDuplicateUnlogged(p, filename, item) == [p EXCEPT !.duplicates_skipped = @ + 1]

skip_duplicate(p, filename, item) ==
    [p EXCEPT !.duplicates_skipped = @ + 1,
              !.files_processed =
                  Append(@, [filename |-> filename, success |-> TRUE,
                             error |-> "Skipped - duplicate", item |-> item])]

Processed(p) == p.completed_files + p.failed_files + p.duplicates_skipped

OverallProgressSansFailed(p) ==
    IF p.total_files = 0 THEN <<0, 1>>
    ELSE <<(p.completed_files + p.duplicates_skipped) * 100, p.total_files>>

\* the percentage as the fraction <<numerator, denominator>>
get_overall_progress(p) ==
    IF p.total_files = 0 THEN <<0, 1>> ELSE <<Processed(p) * 100, p.total_files>>

FirstN(s, n) == IF Len(s) <= n THEN s ELSE SubSeq(s, 1, n)

\* s[-n:]
LastN(s, n) == IF Len(s) <= n THEN s ELSE SubSeq(s, Len(s) - n + 1, Len(s))

get_status_dict(p) ==
    [total_files |-> p.total_files, completed_files |-> p.completed_files,
     failed_files |-> p.failed_files, duplicates_skipped |-> p.duplicates_skipped,
     current_file |-> p.current_file, current_progress |-> p.current_progress,
     overall_progress |-> get_overall_progress(p),
     errors |-> LastN(p.errors, ErrorWindow),
     is_complete |-> Processed(p) >= p.total_files]

\* ------------------------------------------------------ FileDownloader
UpdateProgressStale(p) == progress' = p /\ delivered' = get_status_dict(progress)

\* self.progress is left as p and _update_progress hands its snapshot to the
\* progress callback
update_progress(p) == progress' = p /\ delivered' = get_status_dict(p)

\* ---------------------------------------------------- DatabaseManager
AddMaterialInsertOnly(rows, material) == rows \cup {material}

\* INSERT OR REPLACE under the UNIQUE constraint on remote_id
add_material(rows, material) ==
    {r \in rows : r.remote_id # material.remote_id} \cup {material}

check_duplicate_by_hash(rows, file_hash) ==
    \E r \in rows : r.file_hash = file_hash /\ r.is_duplicate = 0

\* --------------------------------------------------------- FileDownloader
\* the state after initialize_components, over the files and the rows found
\* under base_dir and in the database file
Boot(files, rows) ==
    /\ max_concurrent = DefaultMaxConcurrent
    /\ progress = NewProgress
    /\ delivered = [called |-> FALSE]
    /\ elapsed = TicksPerDelay        \* last_request_time = 0: long ago
    /\ batchPc = "idle"
    /\ atts = <<>>
    /\ pc = <<>>
    /\ outcome = <<>>
    /\ sem = 0
    /\ gate = 0
    /\ sleep = <<>>
    /\ file_path = <<>>
    /\ final_status = [returned |-> FALSE]
    /\ fs = files
    /\ db = rows
    /\ writes = {}
    /\ lastGap = TicksPerDelay
    /\ reqPc = [r \in 1..MaxRequests |-> "none"]
    /\ global_status = [is_active |-> FALSE]
    /\ local_status = [r \in 1..MaxRequests |-> [is_active |-> FALSE]]
    /\ callback_owner = 0

NoCall == [fn |-> "none"]

\* a first start: no file, no row
Init == Boot({}, {}) /\ fm_call = NoCall /\ fm_results = <<>>

ExportFormatsSansDrawing(mime_type) ==
    CASE mime_type = GoogleDoc -> PdfMime
      [] mime_type = GoogleSlides -> PdfMime
      [] mime_type = GoogleSheet -> XlsxMime
      [] OTHER -> "none"

\* the export format of a Google native content type, "none" for any other
export_formats(mime_type) ==
    CASE mime_type = GoogleDoc -> PdfMime
      [] mime_type = GoogleSlides -> PdfMime
      [] mime_type = GoogleSheet -> XlsxMime
      [] mime_type = GoogleDrawing -> PdfMime
      [] OTHER -> "none"

\* original_name.rsplit('.', 1)[0]
NameWithoutExt(name) ==
    IF LastDot(name) = 0 THEN name ELSE SubSeq(name, 1, LastDot(name) - 1)

\* the filename _process_drive_file derives from the metadata
DriveFilename(metadata) ==
    LET export == export_formats(metadata.mimeType)
    IN IF export = PdfMime THEN NameWithoutExt(metadata.name) \o DotPdf
       ELSE IF export = XlsxMime THEN NameWithoutExt(metadata.name) \o DotXlsx
       ELSE metadata.name

DriveMime(metadata) ==
    IF export_formats(metadata.mimeType) # "none"
    THEN export_formats(metadata.mimeType) ELSE metadata.mimeType

LinkFilename(attachment) == sanitize_filename(attachment.title, MaxFilenameLength) \o DotTxt

\* the bytes a fetch writes
ContentOf(attachment) ==
    IF attachment.type = "drive_file" THEN RemoteFile(attachment.drive_file_id).content
    ELSE [kind |-> "Web Link", title |-> attachment.title, body |-> attachment.url]

\* The names and paths of a fetch depend on its descriptor alone; they are
\* tabulated over the catalogue, so that each is computed once.
Descriptors == {Catalogue[k] : k \in 1..Len(Catalogue)} \cup {ExampleLink}

\* the name a fetch reports to the tracker once it has one
FilenameTable ==
    [a \in Descriptors |->
        IF a.type = "drive_file" THEN DriveFilename(RemoteFile(a.drive_file_id))
        ELSE LinkFilename(a)]
FilenameOf(attachment) == FilenameTable[attachment]

\* course_dir / category / safe_filename of the get_file_path call of a fetch
PlainPathTable ==
    [a \in Descriptors |->
        IF a.type = "drive_file"
        THEN PlainPath(a.course_name, FilenameTable[a],
                       DriveMime(RemoteFile(a.drive_file_id)))
        ELSE PlainPath(a.course_name, FilenameTable[a], TextMime)]

\* get_file_path as _process_drive_file and _process_link call it
FilePathFor(attachment, files) ==
    ensure_unique_filename(PlainPathTable[attachment], files)

\* the material_data a fetch hands to add_material
MaterialData(attachment, path) ==
    IF attachment.type = "drive_file"
    THEN [title |-> FilenameOf(attachment),
          mime_type |-> DriveMime(RemoteFile(attachment.drive_file_id)),
          course_name |-> attachment.course_name, local_path |-> path,
          remote_id |-> attachment.drive_file_id,
          file_hash |-> Sha256(ContentOf(attachment)),
          material_type |-> attachment.material_type, is_duplicate |-> 0,
          original_url |-> <<"https://drive.google.com/file/d/", attachment.drive_file_id,
                            "/view">>]
    ELSE [title |-> attachment.title, mime_type |-> TextMime,
          course_name |-> attachment.course_name, local_path |-> path,
          remote_id |-> attachment.url,
          file_hash |-> Sha256(ContentOf(attachment)),
          material_type |-> "WEB_LINK", is_duplicate |-> 0,
          original_url |-> <<"", attachment.url, "">>]

\* A database file that already holds the record of a file with the bytes of
\* the remote files, its file_hash being the checksum the remote metadata
\* reports.  add_material of this downloader stores sha256 digests, so such
\* a row comes with the database file, not from an earlier batch.
EarlierPath == MkPath(<<"c">>, "PDFs", <<"o", ".", "p", "d", "f">>)
EarlierRecord ==
    [title |-> <<"o", ".", "p", "d", "f">>, mime_type |-> PdfMime,
     course_name |-> <<"c">>, local_path |-> EarlierPath, remote_id |-> "f0",
     file_hash |-> Md5(RemoteFile("f1").content),
     material_type |-> "ASSIGNMENT", is_duplicate |-> 0,
     original_url |-> <<"https://drive.google.com/file/d/", "f0", "/view">>]

\* the stores the downloader may be started on
Stores == {[files |-> {}, rows |-> {}],
           [files |-> {EarlierPath}, rows |-> {EarlierRecord}]}

\* async with semaphore: the entry proceeds while the value is positive, and
\* the exit gives the permit back however the body ended
SemaphoreFreeAlways(value) == TRUE
SemaphoreFree(value) == value > 0
SemaphoreReleaseLost(value) == value
SemaphoreRelease(value) == value + 1

BeginBatchKeepsCounts(attachments) ==
    /\ update_progress([progress EXCEPT !.total_files = Len(attachments)])
    /\ sem' = max_concurrent
    /\ gate' = max_concurrent
    /\ atts' = attachments
    /\ pc' = [i \in 1..Len(attachments) |-> "start"]
    /\ outcome' = [i \in 1..Len(attachments) |-> "none"]
    /\ sleep' = [i \in 1..Len(attachments) |-> 0]
    /\ file_path' = [i \in 1..Len(attachments) |-> NoPath]
    /\ final_status' = [returned |-> FALSE]
    /\ batchPc' = "running"
    /\ UNCHANGED <<max_concurrent, elapsed, fs, db, writes, lastGap, appVars, fmVars>>

\* download_attachments up to the creation of the tasks
BeginBatch(attachments) ==
    /\ update_progress([NewProgress EXCEPT !.total_files = Len(attachments)])
    /\ sem' = max_concurrent
    /\ gate' = max_concurrent
    /\ atts' = attachments
    /\ pc' = [i \in 1..Len(attachments) |-> "start"]
    /\ outcome' = [i \in 1..Len(attachments) |-> "none"]
    /\ sleep' = [i \in 1..Len(attachments) |-> 0]
    /\ file_path' = [i \in 1..Len(attachments) |-> NoPath]
    /\ final_status' = [returned |-> FALSE]
    /\ batchPc' = "running"
    /\ UNCHANGED <<max_concurrent, elapsed, fs, db, writes, lastGap, appVars, fmVars>>

\* the first call of download_attachments
StartBatch(attachments) ==
    /\ batchPc = "idle"
    /\ BeginBatch(attachments)

\* a later call of download_attachments, made after the previous call has
\* returned; the run is followed until MaxFiles files are on disk
RestartBatch(attachments) ==
    /\ batchPc = "returned"
    /\ Cardinality(fs) < MaxFiles
    /\ BeginBatch(attachments)

FinishOrRetry(i, how, value) ==
    /\ pc' = [pc EXCEPT ![i] = IF how \in {"success", "duplicate"} THEN "done"
                                ELSE "start"]
    /\ outcome' = [outcome EXCEPT ![i] = how]
    /\ sem' = value + 1

\* the fetch returns or raises: the semaphore is released
Finish(i, how, value) ==
    /\ pc' = [pc EXCEPT ![i] = "done"]
    /\ outcome' = [outcome EXCEPT ![i] = how]
    /\ sem' = SemaphoreRelease(value)

\* _rate_limit up to its await, or through it when no sleep is needed
RateLimit(i, sleepPc, httpPc) ==
    IF elapsed < TicksPerDelay
    THEN /\ pc' = [pc EXCEPT ![i] = sleepPc]
         /\ sleep' = [sleep EXCEPT ![i] = TicksPerDelay - elapsed]
         /\ UNCHANGED <<elapsed, lastGap>>
    ELSE /\ pc' = [pc EXCEPT ![i] = httpPc]
         /\ elapsed' = 0
         /\ lastGap' = elapsed
         /\ UNCHANGED sleep

\* process_with_semaphore and _process_single_attachment up to the first await
Enter(i) ==
    /\ batchPc = "running"
    /\ pc[i] = "start"
    /\ SemaphoreFree(sem)
    /\ LET a == atts[i]
       IN IF a.type = "drive_file" /\ a.drive_file_id = "none"
          THEN /\ Finish(i, "no_id", sem - 1)
               /\ UNCHANGED <<progress, delivered, elapsed, sleep, file_path, lastGap>>
          ELSE IF a.type = "drive_file"
          THEN /\ RateLimit(i, "sleep_metadata", "http_metadata")
               /\ sem' = sem - 1
               /\ UNCHANGED <<progress, delivered, outcome, file_path>>
          ELSE IF a.type = "link"
          THEN /\ file_path' = [file_path EXCEPT ![i] = FilePathFor(a, fs)]
               /\ pc' = [pc EXCEPT ![i] = "open"]
               /\ sem' = sem - 1
               /\ UNCHANGED <<progress, delivered, outcome, elapsed, sleep, lastGap>>
          ELSE /\ update_progress(complete_file(progress, a.title, FALSE,
                                            "Unsupported attachment type", i))
               /\ Finish(i, "unsupported", sem - 1)
               /\ UNCHANGED <<elapsed, sleep, file_path, lastGap>>
    /\ UNCHANGED <<max_concurrent, batchPc, atts, gate, final_status, fs, db, writes,
                   appVars, fmVars>>

\* the clock advances by one tick
Tick ==
    /\ elapsed < TicksPerDelay \/ \E i \in Tasks : sleep[i] > 0
    /\ elapsed' = IF elapsed < TicksPerDelay THEN elapsed + 1 ELSE elapsed
    /\ sleep' = [i \in Tasks |-> IF sleep[i] > 0 THEN sleep[i] - 1 ELSE 0]
    /\ UNCHANGED <<max_concurrent, progress, delivered, batchPc, atts, pc, outcome, sem, gate,
                   file_path, final_status, fs, db, writes, lastGap, appVars, fmVars>>

\* asyncio.sleep is over: _rate_limit stamps last_request_time and the request goes out
Wake(i) ==
    /\ pc[i] \in {"sleep_metadata", "sleep_content"}
    /\ sleep[i] = 0
    /\ pc' = [pc EXCEPT ![i] = IF pc[i] = "sleep_metadata" THEN "http_metadata"
                                ELSE "http_content"]
    /\ elapsed' = 0
    /\ lastGap' = elapsed
    /\ UNCHANGED <<max_concurrent, progress, delivered, batchPc, atts, outcome, sem, gate, sleep,
                   file_path, final_status, fs, db, writes, appVars, fmVars>>

\* the metadata request ends; _process_drive_file runs on to its next await
MetadataResponse(i, response) ==
    /\ pc[i] = "http_metadata"
    /\ LET a == atts[i]
           metadata == RemoteFile(a.drive_file_id)
           filename == DriveFilename(metadata)
           shown == update_current_file(progress, filename, 0)
       IN IF response # "ok"
          THEN /\ Finish(i, IF response = "error" THEN "metadata_error"
                             ELSE "metadata_exception", sem)
               /\ UNCHANGED <<progress, delivered, elapsed, sleep, file_path, lastGap>>
          ELSE IF metadata.has_md5 /\ check_duplicate_by_hash(db, Md5(metadata.content))
          THEN /\ update_progress(skip_duplicate(shown, filename, i))
               /\ Finish(i, "duplicate", sem)
               /\ UNCHANGED <<elapsed, sleep, file_path, lastGap>>
          ELSE /\ file_path' = [file_path EXCEPT ![i] = FilePathFor(a, fs)]
               /\ update_progress(update_current_file(shown, filename, 50))
               /\ RateLimit(i, "sleep_content", "http_content")
               /\ UNCHANGED <<outcome, sem>>
    /\ UNCHANGED <<max_concurrent, batchPc, atts, gate, final_status, fs, db, writes,
                   appVars, fmVars>>

\* the content request ends
ContentResponse(i, response) ==
    /\ pc[i] = "http_content"
    /\ IF response # "ok"
       THEN /\ update_progress(complete_file(progress, FilenameOf(atts[i]), FALSE,
                                         "Failed to download content", i))
            /\ Finish(i, IF response = "error" THEN "content_error"
                          ELSE "content_exception", sem)
       ELSE /\ pc' = [pc EXCEPT ![i] = "open"]
            /\ UNCHANGED <<progress, delivered, outcome, sem>>
    /\ UNCHANGED <<max_concurrent, elapsed, batchPc, atts, gate, sleep, file_path,
                   final_status, fs, db, writes, lastGap, appVars, fmVars>>

\* aiofiles.open(file_path, 'w'): the file is created, or truncated when it exists
OpenFile(i, opened) ==
    /\ pc[i] = "open"
    /\ IF opened
       THEN /\ fs' = fs \cup {file_path[i]}
            /\ writes' = writes \cup {[item |-> i,
                                       path |-> file_path[i],
                                       content |-> ContentOf(atts[i])]}
            /\ pc' = [pc EXCEPT ![i] = "write"]
            /\ UNCHANGED <<progress, delivered, outcome, sem>>
       ELSE /\ update_progress(complete_file(progress, atts[i].title, FALSE,
                                         "Error processing", i))
            /\ Finish(i, "write_error", sem)
            /\ UNCHANGED <<fs, writes>>
    /\ UNCHANGED <<max_concurrent, elapsed, batchPc, atts, gate, sleep, file_path,
                   final_status, db, lastGap, appVars, fmVars>>

\* f.write and the close of the file end; the fetch runs on to its return
WriteFile(i, result) ==
    /\ pc[i] = "write"
    /\ LET a == atts[i]
           filename == FilenameOf(a)
           shown == IF a.type = "drive_file"
                    THEN update_current_file(progress, filename, 100) ELSE progress
       IN IF result = "io_error"
          THEN /\ update_progress(complete_file(progress, a.title, FALSE, "Error processing", i))
               /\ Finish(i, "write_error", sem)
               /\ UNCHANGED db
          ELSE IF result = "db_error"
          THEN /\ update_progress(complete_file(shown, filename, FALSE, "Database save failed", i))
               /\ Finish(i, "db_failed", sem)
               /\ UNCHANGED db
          ELSE /\ db' = add_material(db, MaterialData(a, file_path[i]))
               /\ update_progress(complete_file(shown, filename, TRUE, "", i))
               /\ Finish(i, "success", sem)
    /\ UNCHANGED <<max_concurrent, elapsed, batchPc, atts, gate, sleep, file_path,
                   final_status, fs, writes, lastGap, appVars, fmVars>>

TaskResultAlwaysTrue(how) == "True"

\* what asyncio.gather(return_exceptions=True) collects for a task; every
\* exception of a request or of a file operation is caught inside the fetch,
\* so no path of a fetch ends "raised" with the callback run_download installs
TaskResult(how) ==
    CASE how \in {"success", "duplicate"} -> "True"
      [] how = "raised" -> "exception"
      [] OTHER -> "False"

\* asyncio.gather returns once every task is done; the results are counted
ReturnBatch ==
    /\ batchPc = "running"
    /\ \A i \in Tasks : pc[i] = "done"
    /\ LET successful == Cardinality({i \in Tasks : TaskResult(outcome[i]) = "True"})
       IN final_status' = [returned |-> TRUE, status |-> get_status_dict(progress),
                           final_successful |-> successful,
                           final_failed |-> Len(atts) - successful,
                           total_processed |-> Len(atts)]
    /\ batchPc' = "returned"
    /\ UNCHANGED <<max_concurrent, progress, delivered, elapsed, atts, pc, outcome, sem, gate,
                   sleep, file_path, fs, db, writes, lastGap, appVars, fmVars>>

Clamp(lo, hi, v) == IF v < lo THEN lo ELSE IF v > hi THEN hi ELSE v

\* POST /api/settings with max_concurrent_downloads
ApiSettings(value) ==
    /\ max_concurrent' = Clamp(MinConcurrent, MaxConcurrent, value)
    /\ UNCHANGED <<progress, delivered, elapsed, batchPc, atts, pc, outcome, sem, gate, sleep,
                   file_path, final_status, fs, db, writes, lastGap, appVars, fmVars>>

Next ==
    \/ \E b \in Batches : StartBatch(b)
    \/ \E i \in Tasks : Enter(i)
    \/ Tick
    \/ \E i \in Tasks : Wake(i)
    \/ \E i \in Tasks, r \in Responses : MetadataResponse(i, r)
    \/ \E i \in Tasks, r \in Responses : ContentResponse(i, r)
    \/ \E i \in Tasks, o \in BOOLEAN : OpenFile(i, o)
    \/ \E i \in Tasks, r \in {"ok", "io_error", "db_error"} : WriteFile(i, r)
    \/ ReturnBatch
    \/ \E v \in ConcurrencyInputs : ApiSettings(v)

Spec == Init /\ [][Next]_vars

\* WriteFile with a progress callback that raises when it is handed the
\* snapshot of the completion: the record is stored and the completion
\* counted, the exception of _update_progress lands in the handler of the
\* fetch, which records a failure of the item and calls the callback again.
\* If that call raises too the exception leaves the fetch and gather collects
\* it; otherwise the fetch returns False.
WriteFileCallbackRaises(i, again) ==
    /\ pc[i] = "write"
    /\ LET a == atts[i]
           filename == FilenameOf(a)
           shown == IF a.type = "drive_file"
                    THEN update_current_file(progress, filename, 100) ELSE progress
       IN /\ db' = add_material(db, MaterialData(a, file_path[i]))
          /\ update_progress(complete_file(complete_file(shown, filename, TRUE, "", i),
                                       a.title, FALSE, "Error processing", i))
          /\ Finish(i, IF again THEN "raised" ELSE "callback_error", sem)
    /\ UNCHANGED <<max_concurrent, elapsed, batchPc, atts, gate, sleep, file_path,
                   final_status, fs, writes, lastGap, appVars, fmVars>>

\* the downloader with a progress callback that may raise
NextCallback ==
    \/ Next
    \/ \E i \in Tasks, again \in BOOLEAN : WriteFileCallbackRaises(i, again)

SpecCallback == Init /\ [][NextCallback]_vars

\* the scheduling of the event loop and of the environment: a ready coroutine
\* is run, time passes, a request and a file operation end, gather returns
Fairness ==
    /\ WF_vars(\E i \in Tasks : Enter(i))
    /\ WF_vars(Tick)
    /\ WF_vars(\E i \in Tasks : Wake(i))
    /\ WF_vars(\E i \in Tasks, r \in Responses : MetadataResponse(i, r))
    /\ WF_vars(\E i \in Tasks, r \in Responses : ContentResponse(i, r))
    /\ WF_vars(\E i \in Tasks, o \in BOOLEAN : OpenFile(i, o))
    /\ WF_vars(\E i \in Tasks, r \in {"ok", "io_error", "db_error"} : WriteFile(i, r))
    /\ WF_vars(ReturnBatch)

FairSpec == Init /\ [][Next]_vars /\ Fairness

\* Batches of one remote file, one after the other on the same downloader.
RemoteBatches == {<<Catalogue[1]>>, <<Catalogue[2]>>}

NextLater ==
    \/ \E b \in RemoteBatches : StartBatch(b)
    \/ \E b \in RemoteBatches : RestartBatch(b)
    \/ \E i \in Tasks : Enter(i)
    \/ Tick
    \/ \E i \in Tasks : Wake(i)
    \/ \E i \in Tasks, r \in Responses : MetadataResponse(i, r)
    \/ \E i \in Tasks, r \in Responses : ContentResponse(i, r)
    \/ \E i \in Tasks, o \in BOOLEAN : OpenFile(i, o)
    \/ \E i \in Tasks, r \in {"ok", "io_error", "db_error"} : WriteFile(i, r)
    \/ ReturnBatch

SpecLater == Init /\ [][NextLater]_vars

\* batches that hold the link of no course, alone or next to a drive file
LinkBatches == {<<ExampleLink>>, <<ExampleLink, Catalogue[1]>>, <<Catalogue[1], ExampleLink>>}

NextLink ==
    \/ \E b \in LinkBatches : StartBatch(b)
    \/ \E i \in Tasks : Enter(i)
    \/ Tick
    \/ \E i \in Tasks : Wake(i)
    \/ \E i \in Tasks, r \in Responses : MetadataResponse(i, r)
    \/ \E i \in Tasks, r \in Responses : ContentResponse(i, r)
    \/ \E i \in Tasks, o \in BOOLEAN : OpenFile(i, o)
    \/ \E i \in Tasks, r \in {"ok", "io_error", "db_error"} : WriteFile(i, r)
    \/ ReturnBatch

SpecLink == Init /\ [][NextLink]_vars

\* the downloader started on a store that may hold an earlier record
InitStore ==
    /\ \E st \in Stores : Boot(st.files, st.rows)
    /\ fm_call = NoCall /\ fm_results = <<>>
SpecStore == InitStore /\ [][Next]_vars

\* ------------------------------------------------- file manager calls
\* get_file_path called again and again for one (course, filename, mime type),
\* a file being written at each returned path before the next call.
ResolveNames ==
    { <<"a", ".", "p", "d", "f">>, <<"a">>, <<".", "e">>, <<"a", ".", "b", ".", "t", "x", "t">>,
      <<"a", "_", "1", ".", "p", "d", "f">>, <<"a", ":", "b">> }
ResolveCourses == { <<>>, <<"c">> }
ResolveMimes == { "none", PdfMime }

\* the files that exist before the first call: none, or the one that the
\* first numbered name would be
ExistingFiles(course_name, filename, mime_type) ==
    { {}, {Numbered(PlainPath(course_name, filename, mime_type), 1)} }

InitResolve ==
    /\ \E c \in ResolveCourses, f \in ResolveNames, m \in ResolveMimes :
          \E files \in ExistingFiles(c, f, m) :
              /\ Boot(files, {})
              /\ fm_call = [fn |-> "get_file_path", course_name |-> c, filename |-> f,
                            mime_type |-> m, existing |-> files]
    /\ fm_results = <<>>

ResolveAndWrite ==
    /\ fm_call.fn = "get_file_path"
    /\ Len(fm_results) < MaxResolves
    /\ LET file_path_ == get_file_path(fm_call.course_name, fm_call.filename,
                                       fm_call.mime_type, fs)
       IN /\ fm_results' = Append(fm_results, file_path_)
          /\ fs' = fs \cup {file_path_}
    /\ UNCHANGED <<max_concurrent, progress, delivered, elapsed, batchPc, atts, pc, outcome, sem,
                   gate, sleep, file_path, final_status, db, writes, lastGap, appVars,
                   fm_call>>

NextResolve == ResolveAndWrite

SpecResolve == InitResolve /\ [][NextResolve]_vars

\* sanitize_filename called once with a name over a small alphabet (a letter,
\* the dot, the blank, the underscore, an unsafe and a control character) and
\* a max_length
NameChars == {"a", ".", " ", "_", ":", "\t"}
SanitizeNames == UNION {[1..n -> NameChars] : n \in 0..MaxNameLen}
SanitizeLengths == {1, 2, MaxFilenameLength}

InitSanitize ==
    /\ Boot({}, {})
    /\ \E f \in SanitizeNames, m \in SanitizeLengths :
          fm_call = [fn |-> "sanitize_filename", filename |-> f, max_length |-> m]
    /\ fm_results = <<>>

Sanitize ==
    /\ fm_call.fn = "sanitize_filename"
    /\ fm_results = <<>>
    /\ fm_results' = <<sanitize_filename(fm_call.filename, fm_call.max_length)>>
    /\ UNCHANGED <<dlVars, appVars, fm_call>>

NextSanitize == Sanitize

SpecSanitize == InitSanitize /\ [][NextSanitize]_vars

\* ------------------------------------------- the names of a drive file
\* _process_drive_file from the metadata to the content request, for the
\* metadata of one remote file: a name and a content type, native or not.
\* The request of _download_file_content is the export endpoint with the
\* export type, or the file itself with alt=media.
DriveRequest(export_mime_type) ==
    IF export_mime_type # "none"
    THEN [endpoint |-> "export", mimeType |-> export_mime_type]
    ELSE [endpoint |-> "media", mimeType |-> "none"]

InitExport ==
    /\ Boot({}, {})
    /\ \E name \in { <<"a">>, <<"a", ".", "d", "o", "c">>, <<"a", ".", "b", ".", "c">>,
                      <<".", "x">>, <<"a", " ", "b">>, <<"a", ":", "b">>,
                      <<"A", ".", "P", "D", "F">>, <<"a", ".">> },
          mime \in { GoogleDoc, GoogleSlides, GoogleSheet, GoogleDrawing, PdfMime, TextMime,
                     "application/vnd.google-apps.form" } :
          fm_call = [fn |-> "_process_drive_file", course_name |-> <<"c">>,
                     metadata |-> [name |-> name, mimeType |-> mime]]
    /\ fm_results = <<>>

ProcessMetadata ==
    /\ fm_call.fn = "_process_drive_file"
    /\ fm_results = <<>>
    /\ fm_results' =
          << [filename |-> DriveFilename(fm_call.metadata),
              request |-> DriveRequest(export_formats(fm_call.metadata.mimeType)),
              mime_type |-> DriveMime(fm_call.metadata),
              file_path |-> get_file_path(fm_call.course_name,
                                          DriveFilename(fm_call.metadata),
                                          DriveMime(fm_call.metadata), fs)] >>
    /\ UNCHANGED <<dlVars, appVars, fm_call>>

NextExport == ProcessMetadata

SpecExport == InitExport /\ [][NextExport]_vars

\* ------------------------------------------------- the tracker by itself
\* One DownloadProgress driven by any calls of its methods.  The tracker
\* starts new or with the failures of ErrorWindow - 1 items recorded, so
\* that a few more calls fill the window of get_status_dict and pass it.
\* The k-th item is named by the numeral of k.
RECURSIVE Failed(_)
Failed(n) ==
    IF n = 0 THEN NewProgress
    ELSE complete_file(Failed(n - 1), IntToStr(n), FALSE, "Error processing", n)

NextItem(p) == Len(p.files_processed) + 1

InitTracker ==
    /\ \E n \in {0, ErrorWindow - 1} :
          /\ Boot({}, {})
          /\ fm_results = <<Failed(n)>>
    /\ fm_call = [fn |-> "DownloadProgress", ops |-> 0, last |-> "none"]

\* fm_results[1] is the tracker, fm_call.last the method called last
TrackerCall(method, after) ==
    /\ fm_call.fn = "DownloadProgress"
    /\ fm_call.ops < MaxOps
    /\ fm_call' = [fm_call EXCEPT !.ops = @ + 1, !.last = method]
    /\ fm_results' = <<after>>
    /\ UNCHANGED <<dlVars, appVars>>

TrackerUpdate(pct) ==
    TrackerCall("update_current_file",
                update_current_file(fm_results[1], IntToStr(NextItem(fm_results[1])), pct))

TrackerComplete(success, error) ==
    TrackerCall(IF success THEN "complete_file_ok"
                ELSE IF error = "" THEN "complete_file_failed" ELSE "complete_file_error",
                complete_file(fm_results[1], IntToStr(NextItem(fm_results[1])), success, error,
                              NextItem(fm_results[1])))

TrackerSkip ==
    TrackerCall("skip_duplicate",
                skip_duplicate(fm_results[1], IntToStr(NextItem(fm_results[1])),
                               NextItem(fm_results[1])))

NextTracker ==
    \/ \E pct \in {0, 50} : TrackerUpdate(pct)
    \/ \E success \in BOOLEAN, error \in {"", "Database save failed"} :
          TrackerComplete(success, error)
    \/ TrackerSkip

SpecTracker == InitTracker /\ [][NextTracker]_vars

\* ------------------------------------------------------ runtime settings
\* POST /api/settings with any JSON numbers.  The numbers are counted in
\* hundredths, so that 2.5 fetches is 250 and 0.01 seconds is 1.
Scale == 100
MinDelay == 1
MaxDelay == 100
DefaultDelay == 10

ConcurrencyNumbers == {-100, 0, 100, 250, 300, 1000, 1100}
DelayNumbers == {0, 1, 10, 100, 150}
SettingsKeys == {"max_concurrent_downloads", "request_delay"}
SettingsBodies ==
    [keys : SUBSET SettingsKeys, max_concurrent_downloads : ConcurrencyNumbers,
     request_delay : DelayNumbers]

\* asyncio.Semaphore documents an integer counter.  acquire() returns at once
\* while the counter is positive in the older interpreters and while it is
\* not zero in the newer ones; the two agree on whole numbers only.
SemaphoreImpls == {"positive", "not_zero"}

RECURSIVE Acquired(_, _, _)
\* how many acquire() return at once on a Semaphore of the value, none released
Acquired(value, impl, n) ==
    IF n = MaxAcquires \/ (impl = "positive" /\ value <= 0) \/ (impl = "not_zero" /\ value = 0)
    THEN n
    ELSE Acquired(value - Scale, impl, n + 1)

InitSettings ==
    /\ Boot({}, {})
    /\ fm_call = [fn |-> "api_settings", updates |-> 0]
    /\ fm_results = << [max_concurrent |-> Scale * DefaultMaxConcurrent,
                        request_delay |-> DefaultDelay, gate |-> 0] >>

\* the POST branch of api_settings for a body of numbers
UpdateSettings(data) ==
    /\ fm_call.fn = "api_settings"
    /\ fm_call.updates < MaxUpdates
    /\ fm_call' = [fm_call EXCEPT !.updates = @ + 1]
    /\ fm_results' =
          << [fm_results[1] EXCEPT
                !.max_concurrent =
                    IF "max_concurrent_downloads" \in data.keys
                    THEN Clamp(Scale * MinConcurrent, Scale * MaxConcurrent,
                               data.max_concurrent_downloads)
                    ELSE @,
                !.request_delay =
                    IF "request_delay" \in data.keys
                    THEN Clamp(MinDelay, MaxDelay, data.request_delay)
                    ELSE @] >>
    /\ UNCHANGED <<dlVars, appVars>>

\* download_attachments creates its Semaphore from the setting of the moment;
\* gate is the number of fetches it lets in at once
CreateGate(impl) ==
    /\ fm_call.fn = "api_settings"
    /\ fm_results' = << [fm_results[1] EXCEPT
                            !.gate = Acquired(fm_results[1].max_concurrent, impl, 0)] >>
    /\ UNCHANGED <<dlVars, appVars, fm_call>>

NextSettings ==
    \/ \E data \in SettingsBodies : UpdateSettings(data)
    \/ \E impl \in SemaphoreImpls : CreateGate(impl)

SpecSettings == InitSettings /\ [][NextSettings]_vars

\* ------------------------------------------------------------------ app.py
\* The web layer.  run_download assigns current_download_status without
\* declaring it global, so the name is a local of run_download there and in
\* the progress_callback nested in it; api_start_download and
\* api_download_status read the module global.  The call of
\* download_attachments is kept as its two ends here.
Requests == 1..MaxRequests

\* api_start_download, in the thread of the request
StartDownload(r, valid) ==
    /\ reqPc[r] = "none"
    /\ reqPc' = [reqPc EXCEPT ![r] =
                    IF global_status.is_active THEN "rejected_409"
                    ELSE IF ~valid THEN "rejected_400"
                    ELSE "spawned"]
    /\ UNCHANGED <<global_status, local_status, callback_owner, dlVars, fmVars>>

\* run_download, lines 399-414: the callback is installed, the local status marked active
MarkActive(r) ==
    /\ reqPc[r] = "spawned"
    /\ callback_owner' = r
    /\ local_status' = [local_status EXCEPT ![r] = [is_active |-> TRUE]]
    /\ reqPc' = [reqPc EXCEPT ![r] = "fetching"]
    /\ UNCHANGED <<global_status, dlVars, fmVars>>

\* run_download, lines 416-441: the materials are fetched; found tells what came back
FetchMaterials(r, found) ==
    /\ reqPc[r] = "fetching"
    /\ IF found = "attachments"
       THEN /\ reqPc' = [reqPc EXCEPT ![r] = "downloading"]
            /\ UNCHANGED local_status
       ELSE /\ reqPc' = [reqPc EXCEPT ![r] = "finished"]
            /\ local_status' = [local_status EXCEPT ![r] = [is_active |-> FALSE]]
    /\ UNCHANGED <<global_status, callback_owner, dlVars, fmVars>>

\* the downloader calls the progress_callback it holds with a snapshot
ProgressCallback(r, is_complete) ==
    /\ reqPc[r] = "downloading"
    /\ callback_owner # 0
    /\ local_status' = [local_status EXCEPT ![callback_owner] = [is_active |-> ~is_complete]]
    /\ UNCHANGED <<reqPc, global_status, callback_owner, dlVars, fmVars>>

\* run_download, lines 443-446: download_attachments has returned
DownloadReturns(r) ==
    /\ reqPc[r] = "downloading"
    /\ reqPc' = [reqPc EXCEPT ![r] = "finished"]
    /\ local_status' = [local_status EXCEPT ![r] = [is_active |-> FALSE]]
    /\ UNCHANGED <<global_status, callback_owner, dlVars, fmVars>>

NextApp ==
    \/ \E r \in Requests, valid \in BOOLEAN : StartDownload(r, valid)
    \/ \E r \in Requests : MarkActive(r)
    \/ \E r \in Requests, found \in {"attachments", "nothing", "error"} : FetchMaterials(r, found)
    \/ \E r \in Requests, c \in BOOLEAN : ProgressCallback(r, c)
    \/ \E r \in Requests : DownloadReturns(r)

SpecApp == Init /\ [][NextApp]_vars

\* ------------------------------------------------------------ properties
\* the tracker calls (complete_file or skip_duplicate) made for task i: each
\* call appends one entry to files_processed
Calls(i) ==
    Cardinality({k \in 1..Len(progress.files_processed) :
                    progress.files_processed[k].item = i})

FailureCalls(i) ==
    Cardinality({k \in 1..Len(progress.files_processed) :
                    /\ progress.files_processed[k].item = i
                    /\ ~progress.files_processed[k].success})

\* the fetches that have entered _process_single_attachment and not returned
InFlight == Cardinality({i \in Tasks : pc[i] \notin {"start", "done"}})

\* C1: every fetch, on every path, calls complete_file or skip_duplicate
\* exactly once: a finished fetch has made one call, no fetch ever makes two.
C1_ExactlyOneCompletion ==
    \A i \in Tasks : Calls(i) <= 1 /\ (pc[i] = "done" => Calls(i) = 1)

C3_RequestsSpaced == lastGap >= TicksPerDelay

AllDone == \A i \in Tasks : pc[i] = "done" /\ outcome[i] # "none"

\* C4: download_attachments returns only after every fetch has ended, and a
\* batch that runs does return, whatever fetches fail.
C4_BatchCompletes ==
    /\ [](batchPc = "returned" => AllDone)
    /\ (batchPc = "running") ~> (batchPc = "returned")

C4_Witness ==
    /\ batchPc = "returned"
    /\ gate = 1
    /\ \E i, j \in Tasks :
          /\ outcome[i] \in {"metadata_exception", "content_error", "write_error",
                             "db_failed", "no_id", "unsupported"}
          /\ outcome[j] = "success"

\* C5: no two fetches write the same local path and no existing file is
\* overwritten: every path is opened for writing by one fetch at most.
C5_NoPathCollision ==
    \A w1, w2 \in writes : w1.path = w2.path => w1 = w2

IdenticalPair ==
    /\ Len(atts) = 2
    /\ \A i \in Tasks : atts[i].type = "drive_file" /\ atts[i].drive_file_id # "none"
                        /\ RemoteFile(atts[i].drive_file_id).has_md5
    /\ ContentOf(atts[1]) = ContentOf(atts[2])

\* C6: a batch of two remote files with identical content, both fetched without
\* an error, counts one completed file and one skipped duplicate and writes
\* the content once.
C6_IdenticalContentOnce ==
    (/\ batchPc = "returned"
     /\ IdenticalPair
     /\ \A i \in Tasks : outcome[i] \in {"success", "duplicate"})
    => /\ progress.completed_files = 1
       /\ progress.duplicates_skipped = 1
       /\ Cardinality(writes) = 1

\* C7: when download_attachments returns, every attachment is counted in
\* exactly one of the three counters and the status is complete.
C7_AllCounted ==
    batchPc = "returned" =>
        /\ final_status.status.total_files = Len(atts)
        /\ Processed(progress) = Len(atts)
        /\ \A i \in Tasks : Calls(i) = 1
        /\ final_status.status.is_complete

\* C8: at most one call of download_attachments is in flight at any time.
C8_OneBatchInFlight ==
    Cardinality({r \in Requests : reqPc[r] = "downloading"}) <= 1

\* C9: download_attachments returns a status whatever is raised inside a
\* fetch, and every fetch in which an exception was raised has a failure
\* recorded for its item.
C9_ExceptionsRecorded ==
    batchPc = "returned" =>
        /\ final_status.returned
        /\ \A i \in Tasks :
              outcome[i] \in {"metadata_exception", "content_exception", "write_error"}
                  => FailureCalls(i) >= 1

\* C10: a remote file whose id is missing or whose metadata or content cannot
\* be obtained is one recorded failure: the fetch returns False and
\* failed_files and the error list grow by one for it.
C10_RemoteFailureRecorded ==
    \A i \in Tasks :
        outcome[i] \in {"no_id", "metadata_error", "metadata_exception",
                        "content_error", "content_exception"}
            => /\ TaskResult(outcome[i]) = "False"
               /\ FailureCalls(i) = 1
               /\ \E k \in 1..Len(progress.errors) : TRUE

\* the snapshot get_status_dict builds in the current state
Snapshot == get_status_dict(progress)

\* C11: the snapshot's overall progress is 0 for an empty batch, is the
\* percentage of counted items otherwise, exactly 100 once all are counted,
\* and is_complete holds iff counted >= total_files.
C11_OverallProgress ==
    LET s == Snapshot
        counted == s.completed_files + s.failed_files + s.duplicates_skipped
        pct == s.overall_progress
    IN /\ pct[2] > 0
       /\ s.total_files = 0 => pct[1] = 0
       /\ s.total_files > 0 => pct[1] * s.total_files = counted * 100 * pct[2]
       /\ (s.total_files > 0 /\ counted = s.total_files) => pct[1] = 100 * pct[2]
       /\ s.is_complete <=> counted >= s.total_files

C11_Witness ==
    /\ Snapshot.total_files = 2
    /\ Snapshot.completed_files = 1
    /\ Snapshot.failed_files = 1
    /\ Snapshot.overall_progress = <<200, 2>>
    /\ Snapshot.is_complete

AllUnknown == \A i \in Tasks : atts[i].type = "unknown"

\* C12: a batch whose attachments are all of an unknown kind ends with
\* failed_files = N, completed_files = 0, duplicates_skipped = 0 and
\* is_complete, every item recorded under "Unsupported attachment type", no
\* file written and no record persisted.
C12_AllUnknownFail ==
    (batchPc = "returned" /\ AllUnknown) =>
        /\ final_status.status.failed_files = Len(atts)
        /\ final_status.status.completed_files = 0
        /\ final_status.status.duplicates_skipped = 0
        /\ final_status.status.is_complete
        /\ Len(progress.errors) = Len(atts)
        /\ \A i \in Tasks :
              \E k \in 1..Len(progress.files_processed) :
                  /\ progress.files_processed[k].item = i
                  /\ ~progress.files_processed[k].success
                  /\ progress.files_processed[k].error = "Unsupported attachment type"
                  /\ <<atts[i].title, "Unsupported attachment type">> \in
                        {progress.errors[e] : e \in 1..Len(progress.errors)}
        /\ fs = {} /\ db = {} /\ writes = {}

C12_Witness ==
    /\ batchPc = "returned"
    /\ Len(atts) = 2
    /\ AllUnknown
    /\ final_status.status.failed_files = 2

\* C13: when add_material returns False after the file was written, the
\* step counts one failure and no completion, the fetch returns False, and
\* the written file stays where it is while the store is left as it was.
C13_PersistFailureIsItemFailure ==
    /\ [][\A i \in Tasks :
            (outcome[i] = "none" /\ outcome'[i] = "db_failed") =>
                /\ progress'.failed_files = progress.failed_files + 1
                /\ progress'.completed_files = progress.completed_files
                /\ TaskResult(outcome'[i]) = "False"
                /\ file_path[i] \in fs /\ fs' = fs
                /\ db' = db
                /\ pc'[i] = "done"]_vars
    /\ [](\A i \in Tasks : outcome[i] = "db_failed" =>
                pc[i] = "done" /\ file_path[i] \in fs)

C13_Witness ==
    /\ batchPc = "returned"
    /\ \E i \in Tasks :
          /\ outcome[i] = "db_failed"
          /\ file_path[i] \in fs
          /\ final_status.status.failed_files = 1
          /\ final_status.status.completed_files = 0
          /\ final_status.final_failed = Len(atts)

\* the remote metadata of task i supplies a checksum that the store knows
LookupHits(i) ==
    /\ atts[i].type = "drive_file" /\ atts[i].drive_file_id # "none"
    /\ RemoteFile(atts[i].drive_file_id).has_md5
    /\ check_duplicate_by_hash(db, Md5(RemoteFile(atts[i].drive_file_id).content))

\* C14: a fetch whose metadata arrives with a checksum the store knows ends
\* as a skipped duplicate in that very step: duplicates_skipped grows by one,
\* completed_files and failed_files stay, the result is True, and no path is
\* resolved, no content requested, no file written, no record persisted.
C14_DuplicateSkipped ==
    [][\A i \in Tasks :
          /\ (/\ pc[i] = "http_metadata" /\ pc'[i] # "http_metadata"
               /\ outcome'[i] \notin {"metadata_error", "metadata_exception"}
               /\ LookupHits(i))
              => outcome'[i] = "duplicate"
          /\ (outcome[i] = "none" /\ outcome'[i] = "duplicate") =>
                /\ pc[i] = "http_metadata" /\ pc'[i] = "done"
                /\ progress'.duplicates_skipped = progress.duplicates_skipped + 1
                /\ progress'.completed_files = progress.completed_files
                /\ progress'.failed_files = progress.failed_files
                /\ TaskResult(outcome'[i]) = "True"
                /\ file_path'[i] = NoPath
                /\ fs' = fs /\ db' = db /\ writes' = writes]_vars

C14_Witness ==
    /\ batchPc = "returned"
    /\ Len(atts) = 2
    /\ \E i, j \in Tasks :
          /\ outcome[i] = "duplicate" /\ file_path[i] = NoPath
          /\ outcome[j] = "success"
    /\ final_status.status.duplicates_skipped = 1
    /\ final_status.status.completed_files = 1
    /\ db = {EarlierRecord} \cup {r \in db : r.material_type = "WEB_LINK"}

\* the store holds a record of the content task i is about to fetch
RecordedEarlier(i) ==
    \E r \in db : r.file_hash = Sha256(ContentOf(atts[i]))

\* C15: once a remote file has been downloaded and recorded, a later fetch
\* of the same content is skipped as a duplicate when its metadata arrives.
C15_LaterBatchSkips ==
    [][\A i \in Tasks :
          (/\ pc[i] = "http_metadata" /\ pc'[i] # "http_metadata"
           /\ outcome'[i] \notin {"metadata_error", "metadata_exception"}
           /\ RemoteFile(atts[i].drive_file_id).has_md5
           /\ RecordedEarlier(i))
          => outcome'[i] = "duplicate"]_vars

\* how far a fetch has come: every await it can be suspended at, in the
\* order _process_drive_file and _process_link pass them
Rank(p) ==
    CASE p = "start" -> 0
      [] p = "sleep_metadata" -> 1
      [] p = "http_metadata" -> 2
      [] p = "sleep_content" -> 3
      [] p = "http_content" -> 4
      [] p = "open" -> 5
      [] p = "write" -> 6
      [] p = "done" -> 7

\* C16: within a batch a fetch only moves forward, so it passes each of its
\* requests, its file write and its persist at most once and is never
\* started again after it has ended; no item opens a file twice.
C16_NoRetry ==
    /\ [][(batchPc = "running" /\ batchPc' = "running") =>
            \A i \in Tasks : pc'[i] = pc[i] \/ Rank(pc'[i]) > Rank(pc[i])]_vars
    /\ [](\A w1, w2 \in writes : w1.item = w2.item => w1 = w2)

C16_Witness ==
    /\ batchPc = "returned"
    /\ Len(atts) = 2
    /\ \E i, j \in Tasks :
          /\ outcome[i] = "content_error" /\ Calls(i) = 1
          /\ outcome[j] = "unsupported" /\ Calls(j) = 1
    /\ final_status.status.failed_files = 2
    /\ writes = {}

\* the files on disk before the k-th call of the followed get_file_path
FilesBefore(k) == fm_call.existing \cup {fm_results[j] : j \in 1..(k - 1)}

\* C17: the paths returned for one (course, filename), a file being written
\* at each before the next call, never name an existing file and are pairwise
\* distinct; the plain name is returned while it is free, and otherwise the
\* name with the smallest numeric suffix that is free, never the random one.
C17_ResolvedPathsDistinct ==
    fm_call.fn = "get_file_path" =>
        LET plain == PlainPath(fm_call.course_name, fm_call.filename, fm_call.mime_type)
        IN \A k \in 1..Len(fm_results) :
              /\ fm_results[k] \notin FilesBefore(k)
              /\ \A j \in 1..(k - 1) : fm_results[j] # fm_results[k]
              /\ plain \notin FilesBefore(k) => fm_results[k] = plain
              /\ plain \in FilesBefore(k) =>
                    \E n \in 1..(Cardinality(FilesBefore(k)) + 1) :
                        /\ n <= MaxCounter
                        /\ fm_results[k] = Numbered(plain, n)
                        /\ \A m \in 1..(n - 1) : Numbered(plain, m) \in FilesBefore(k)

C17_Witness ==
    /\ fm_call.fn = "get_file_path"
    /\ fm_call.existing = {}
    /\ fm_results =
          << MkPath(<<"c">>, "PDFs", <<"a", ".", "p", "d", "f">>),
             MkPath(<<"c">>, "PDFs", <<"a", "_", "1", ".", "p", "d", "f">>),
             MkPath(<<"c">>, "PDFs", <<"a", "_", "2", ".", "p", "d", "f">>) >>
    /\ \A k \in 1..3 : fm_results[k] \in fs

\* the record of the store written for task i
RecordOf(i) == {m \in db : m.local_path = file_path[i]}

\* what a stored link leaves behind, whatever the directory: a text file
\* holding the URL, a WEB_LINK record with that URL, one completion
LinkStored(i) ==
    /\ file_path[i] \in fs
    /\ \E w \in writes : w.item = i /\ w.path = file_path[i] /\ w.content.body = ExampleUrl
    /\ \E m \in RecordOf(i) :
          m.material_type = "WEB_LINK" /\ m.original_url = <<"", ExampleUrl, "">>
    /\ \E k \in 1..Len(progress.files_processed) :
          progress.files_processed[k].item = i /\ progress.files_processed[k].success
    /\ progress.completed_files >= 1

\* C18: a stored link with title "Example", url "https://example.com/x" and
\* no course name is the text file Uncategorized/Web/Example.txt holding the
\* URL, has a WEB_LINK record with that original_url, and is counted completed.
C18_LinkStoredUnderWeb ==
    \A i \in Tasks :
        (atts[i] = ExampleLink /\ outcome[i] = "success") =>
            /\ file_path[i] = MkPath(Uncategorized, "Web", ExampleTitle \o DotTxt)
            /\ LinkStored(i)

\* what the code does for that link: everything the claim says, in Documents
C18_LinkStoredUnderDocuments ==
    \A i \in Tasks :
        (atts[i] = ExampleLink /\ outcome[i] = "success") =>
            /\ file_path[i].course = Uncategorized
            /\ file_path[i].category = "Documents"
            /\ file_path[i].name = ExampleTitle \o DotTxt
            /\ LinkStored(i)

C18_Witness ==
    \E i \in Tasks :
        /\ atts[i] = ExampleLink /\ outcome[i] = "success"
        /\ file_path[i] = MkPath(Uncategorized, "Documents", ExampleTitle \o DotTxt)
        /\ batchPc = "returned"

\* the value sanitize_filename returned has only safe characters
SafeChars(name) ==
    \A k \in 1..Len(name) : name[k] \notin UnsafeChars /\ name[k] \notin ControlChars

\* C19: for every filename and max_length the value of sanitize_filename has
\* none of the unsafe characters and no control character, is not empty, and
\* is at most max_length characters long, the extension included.
C19_SanitizedWithinLength ==
    (fm_call.fn = "sanitize_filename" /\ fm_results # <<>>) =>
        /\ SafeChars(fm_results[1])
        /\ fm_results[1] # <<>>
        /\ Len(fm_results[1]) <= fm_call.max_length

\* what the code keeps: safe characters and a name that is not empty; the
\* length limit holds when 'untitled' and the extension fit below it
C19_SanitizedSafe ==
    (fm_call.fn = "sanitize_filename" /\ fm_results # <<>>) =>
        /\ SafeChars(fm_results[1])
        /\ fm_results[1] # <<>>
        /\ (/\ Len(Untitled) <= fm_call.max_length
            /\ Len(SplitExt(Cleaned(fm_call.filename))[2]) <= fm_call.max_length)
                => Len(fm_results[1]) <= fm_call.max_length

\* the name "a.a" limited to one character comes back as ".a"
C19_Witness ==
    /\ fm_call = [fn |-> "sanitize_filename", filename |-> <<"a", ".", "a">>, max_length |-> 1]
    /\ fm_results = << <<".", "a">> >>

\* the settings of the downloader in the settings specification
Settings == fm_results[1]

\* C20: after any settings updates max_concurrent is within [1, 10] and
\* request_delay within [0.01, 1.0] seconds, and the gate a later batch
\* creates lets in between 1 and 10 fetches at once.
C20_SettingsWithinBounds ==
    fm_call.fn = "api_settings" =>
        /\ Scale * MinConcurrent <= Settings.max_concurrent
        /\ Settings.max_concurrent <= Scale * MaxConcurrent
        /\ MinDelay <= Settings.request_delay /\ Settings.request_delay <= MaxDelay
        /\ Settings.gate # 0 => Settings.gate \in MinConcurrent..MaxConcurrent

\* what the code keeps: both settings stay within their bounds; a gate made
\* from a whole number lets in that many fetches
C20_SettingsClamped ==
    fm_call.fn = "api_settings" =>
        /\ Scale * MinConcurrent <= Settings.max_concurrent
        /\ Settings.max_concurrent <= Scale * MaxConcurrent
        /\ MinDelay <= Settings.request_delay /\ Settings.request_delay <= MaxDelay
        /\ (Settings.gate # 0 /\ Settings.gate < MaxAcquires) =>
              Settings.gate \in MinConcurrent..MaxConcurrent

\* max_concurrent_downloads 2.5 was posted and the gate made from it has let
\* in every acquisition tried
C20_Witness ==
    /\ fm_call.fn = "api_settings"
    /\ Settings.max_concurrent = 250
    /\ Settings.gate = MaxAcquires

\* C21: what the status endpoint returns follows the batch: it is the status
\* the callback and run_download last wrote, with is_active true from the
\* start of a batch until it finishes and false once it has finished.
C21_StatusEndpointReflectsBatch ==
    \A r \in Requests :
        /\ reqPc[r] \in {"fetching", "downloading"} =>
              global_status.is_active /\ global_status = local_status[r]
        /\ (reqPc[r] = "finished" /\ \A q \in Requests : reqPc[q] \notin {"fetching", "downloading"})
              => ~global_status.is_active

\* a batch is running, its run_download holds an active status, and the
\* status endpoint reports no active batch
C21_Witness ==
    \E r \in Requests :
        /\ reqPc[r] = "downloading"
        /\ callback_owner = r
        /\ local_status[r].is_active
        /\ ~global_status.is_active

C23_ErrorWindow ==
    /\ [][fm_call.fn = "DownloadProgress" =>
            fm_results'[1].errors =
                IF fm_call'.last = "complete_file_error"
                THEN Append(fm_results[1].errors,
                            <<IntToStr(NextItem(fm_results[1])), "Database save failed">>)
                ELSE fm_results[1].errors]_vars
    /\ [](fm_call.fn = "DownloadProgress" =>
            LET all == fm_results[1].errors
                shown == get_status_dict(fm_results[1]).errors
            IN /\ Len(shown) <= 10
               /\ Len(shown) = IF Len(all) < 10 THEN Len(all) ELSE 10
               /\ \A k \in 1..Len(shown) : shown[k] = all[Len(all) - Len(shown) + k])

\* eleven errors recorded, the snapshot shows the second to the eleventh
C23_Witness ==
    /\ fm_call.fn = "DownloadProgress"
    /\ fm_call.last = "complete_file_error"
    /\ Len(fm_results[1].errors) = 11
    /\ Len(get_status_dict(fm_results[1]).errors) = 10
    /\ get_status_dict(fm_results[1]).errors[1] = fm_results[1].errors[2]
    /\ get_status_dict(fm_results[1]).errors[10] = <<<<"1", "1">>, "Database save failed">>

\* C24: the step that starts a batch leaves a tracker whose total_files is
\* the number of attachments and whose counts, error list and audit log are
\* empty, whatever the tracker of the earlier batch held.
C24_FreshTracker ==
    [][(batchPc # "running" /\ batchPc' = "running") =>
          /\ progress'.total_files = Len(atts')
          /\ progress'.completed_files = 0 /\ progress'.failed_files = 0
          /\ progress'.duplicates_skipped = 0
          /\ progress'.errors = <<>> /\ progress'.files_processed = <<>>
          /\ get_status_dict(progress').errors = <<>>
          /\ get_status_dict(progress').overall_progress[1] = 0]_vars

\* a later batch has just started on the downloader whose earlier batch
\* stored a file: nothing is counted yet
C24_Witness ==
    /\ batchPc = "running"
    /\ fs # {} /\ db # {}
    /\ \A i \in Tasks : pc[i] = "start"
    /\ progress.total_files = Len(atts)
    /\ Processed(progress) = 0 /\ progress.errors = <<>>

\* the name ends with the extension
EndsWith(name, ext) ==
    Len(name) >= Len(ext) /\ SubSeq(name, Len(name) - Len(ext) + 1, Len(name)) = ext

\* C25: a native document, presentation or drawing is requested as its PDF
\* export and named .pdf, a native spreadsheet as its spreadsheet export and
\* named .xlsx, any other content type is downloaded as it is under its
\* original name; the content type recorded is the export type if there is one.
C25_ExportSubstitution ==
    (fm_call.fn = "_process_drive_file" /\ fm_results # <<>>) =>
        LET mime == fm_call.metadata.mimeType
            r == fm_results[1]
        IN /\ mime \in {GoogleDoc, GoogleSlides, GoogleDrawing} =>
                /\ r.request = [endpoint |-> "export", mimeType |-> "application/pdf"]
                /\ EndsWith(r.filename, DotPdf) /\ EndsWith(r.file_path.name, DotPdf)
                /\ r.mime_type = "application/pdf"
           /\ mime = GoogleSheet =>
                /\ r.request = [endpoint |-> "export", mimeType |-> XlsxMime]
                /\ EndsWith(r.filename, DotXlsx) /\ EndsWith(r.file_path.name, DotXlsx)
                /\ r.mime_type = XlsxMime
           /\ mime \notin {GoogleDoc, GoogleSlides, GoogleDrawing, GoogleSheet} =>
                /\ r.request.endpoint = "media"
                /\ r.filename = fm_call.metadata.name
                /\ r.mime_type = mime

\* the drawing a.doc is requested as PDF and stored as c/PDFs/a.pdf
C25_Witness ==
    /\ fm_call.fn = "_process_drive_file"
    /\ fm_call.metadata = [name |-> <<"a", ".", "d", "o", "c">>, mimeType |-> GoogleDrawing]
    /\ fm_results # <<>>
    /\ fm_results[1].request.endpoint = "export"
    /\ fm_results[1].file_path = MkPath(<<"c">>, "PDFs", <<"a", ".", "p", "d", "f">>)

\* C26: while a batch runs and after it, whatever the callback does, the
\* three counts together never pass total_files and the overall progress
\* never passes 100.
C26_NeverOverTotal ==
    batchPc # "idle" =>
        /\ Processed(progress) <= progress.total_files
        /\ get_overall_progress(progress)[1] <= 100 * get_overall_progress(progress)[2]

\* a batch of one stored item whose completion was counted twice
C26_Witness ==
    /\ batchPc = "returned"
    /\ Len(atts) = 1
    /\ outcome[1] = "callback_error"
    /\ progress.completed_files = 1 /\ progress.failed_files = 1
    /\ final_status.status.overall_progress = <<200, 1>>

\* C27: in the status download_attachments returns, final_successful and
\* final_failed add up to total_processed and to total_files, final_successful
\* is completed_files + duplicates_skipped and final_failed is failed_files.
C27_FinalCountsAgree ==
    batchPc = "returned" =>
        /\ final_status.final_successful + final_status.final_failed
              = final_status.total_processed
        /\ final_status.total_processed = final_status.status.total_files
        /\ final_status.final_successful
              = final_status.status.completed_files + final_status.status.duplicates_skipped
        /\ final_status.final_failed = final_status.status.failed_files

\* what the code keeps: the sums, and the successes
C27_FinalSumsAgree ==
    batchPc = "returned" =>
        /\ final_status.final_successful + final_status.final_failed
              = final_status.total_processed
        /\ final_status.total_processed = final_status.status.total_files
        /\ final_status.final_successful
              = final_status.status.completed_files + final_status.status.duplicates_skipped
        /\ final_status.final_failed >= final_status.status.failed_files

\* a batch of one drive file without id: one failed fetch, no failure counted
C27_Witness ==
    /\ batchPc = "returned"
    /\ Len(atts) = 1 /\ outcome[1] = "no_id"
    /\ final_status.final_failed = 1
    /\ final_status.status.failed_files = 0

\* C28: every record of the store names a local_path at which a fetch has
\* written a file, and no two records name the same local_path.
C28_RecordsNameOwnFiles ==
    /\ \A m \in db : m.local_path \in fs /\ \E w \in writes : w.path = m.local_path
    /\ \A m1 \in db, m2 \in db : m1.local_path = m2.local_path => m1 = m2

\* what the code keeps: every record names a written file
C28_RecordsNameFiles ==
    \A m \in db : m.local_path \in fs /\ \E w \in writes : w.path = m.local_path

\* two fetches of one batch have stored two records for the same path
C28_Witness ==
    /\ batchPc = "returned"
    /\ Len(atts) = 2
    /\ outcome[1] = "success" /\ outcome[2] = "success"
    /\ file_path[1] = file_path[2]
    /\ Cardinality(db) = 2
    /\ Cardinality(fs) = 1

\* C29: within a batch the three counts of the snapshots handed to the
\* callback never go down; when a step of a fetch ends, the callback has been
\* handed the counts of the tracker; update_current_file changes
\* current_file and current_progress and nothing else.
C29_SnapshotsFollowCounters ==
    /\ [][(batchPc = "running" /\ batchPc' # "idle") =>
            /\ delivered'.completed_files >= delivered.completed_files
            /\ delivered'.failed_files >= delivered.failed_files
            /\ delivered'.duplicates_skipped >= delivered.duplicates_skipped]_vars
    /\ [](batchPc # "idle" =>
            /\ delivered.completed_files = progress.completed_files
            /\ delivered.failed_files = progress.failed_files
            /\ delivered.duplicates_skipped = progress.duplicates_skipped
            /\ \A pct \in {0, 50, 100} :
                  [update_current_file(progress, <<"n">>, pct) EXCEPT
                      !.current_file = progress.current_file,
                      !.current_progress = progress.current_progress] = progress
            /\ \A pct \in {0, 50, 100} :
                  /\ update_current_file(progress, <<"n">>, pct).current_file = <<"n">>
                  /\ update_current_file(progress, <<"n">>, pct).current_progress = pct)

\* one fetch of a running batch of two has stored its file and returned, and
\* the callback holds the completion
C29_Witness ==
    /\ batchPc = "running"
    /\ Len(atts) = 2
    /\ \E i \in Tasks : outcome[i] = "success" /\ pc[i] = "done"
    /\ \E i \in Tasks : pc[i] # "done"
    /\ progress.completed_files = 1
    /\ delivered.completed_files = 1

\* C30: the audit log of the tracker has one entry for every item counted,
\* in the order the items were counted, a skipped duplicate being logged as
\* a success, and there are at most failed_files error messages.
C30_AuditLogMatchesCounts ==
    /\ [](fm_call.fn = "DownloadProgress" =>
            LET p == fm_results[1]
                log == p.files_processed
            IN /\ Len(log) = p.completed_files + p.failed_files + p.duplicates_skipped
               /\ \A k \in 1..Len(log) : log[k].item = k /\ log[k].filename = IntToStr(k)
               /\ Cardinality({k \in 1..Len(log) : log[k].success})
                     = p.completed_files + p.duplicates_skipped
               /\ Len(p.errors) <= p.failed_files)
    /\ [][fm_call.fn = "DownloadProgress" =>
            LET log == fm_results[1].files_processed
                after == fm_results'[1].files_processed
            IN /\ fm_call'.last = "update_current_file" => after = log
               /\ fm_call'.last # "update_current_file" =>
                     Len(after) = Len(log) + 1 /\ SubSeq(after, 1, Len(log)) = log
               /\ fm_call'.last = "skip_duplicate" =>
                     /\ after[Len(after)].success
                     /\ after[Len(after)].error = "Skipped - duplicate"]_vars

\* a tracker that counted a completion, a failure without message and a
\* skipped duplicate, in that order
C30_Witness ==
    /\ fm_call.fn = "DownloadProgress"
    /\ fm_call.last = "skip_duplicate"
    /\ fm_results[1].completed_files = 1 /\ fm_results[1].failed_files = 1
    /\ fm_results[1].duplicates_skipped = 1
    /\ fm_results[1].errors = <<>>
    /\ Len(fm_results[1].files_processed) = 3
    /\ fm_results[1].files_processed[1].success
    /\ ~fm_results[1].files_processed[2].success
    /\ fm_results[1].files_processed[3].error = "Skipped - duplicate"

====
